---- MODULE Spec2Model ----
(***************************************************************************)
(* A model of hack/bazeldist.py (Noelware/violet): the script that stages  *)
(* the source tree without the development tooling, rewrites MODULE.bazel  *)
(* and packs the staging directory into a gzip-compressed tarball.         *)
(*                                                                         *)
(* File names and paths are sequences of one-character strings, so that    *)
(* str.startswith and the substring test `in` are computed as Python       *)
(* computes them.  A path is a sequence of names (its components).         *)
(*                                                                         *)
(* The text of a MODULE.bazel is a sequence of pieces; each piece stands   *)
(* for the substring that is its value: a newline, an ordinary character,  *)
(* the head "## :- START" of the start marker, the tail both markers share *)
(* and the whole end marker.  In the concatenation of such pieces the      *)
(* start marker occurs exactly where StartHead is followed by MarkerTail   *)
(* and the end marker exactly at the EndMarker pieces, so the regular      *)
(* expression acts on the pieces as it acts on the characters.             *)
(***************************************************************************)
EXTENDS Integers, Sequences, FiniteSets, TLC

VARIABLES
    pc,         \* position of the process: "start", "main", "resolve", "walk",
                \* "archive", "adding", "done", "usage", "aborted"
    nargs,      \* number of positional arguments: len(sys.argv) - 1
    env,        \* which runfiles variable is set: "unset", "RUNFILES_DIR",
                \* "RUNFILES_MANIFEST_FILE"
    wsExists,   \* whether <runfiles>/bazeldist.runfiles/_main exists
    tree,       \* the regular files under ws (root-relative paths)
    modText,    \* the text of the MODULE.bazel files of the tree
    staging,    \* the staging directory distdir
    tar,        \* the file at the output archive path
    toVisit,    \* entries ws.rglob("*") has not yielded yet
    toAdd,      \* entries dst.rglob("*") has not yielded yet
    printed,    \* kinds of the messages printed so far
    exitCode,   \* exit status of the process, -1 while it runs
    error,      \* the exception that ended the run, "none" otherwise
    rerun,      \* TRUE in the second of two runs over the same input
    now,        \* wall-clock time, in seconds
    firstTar,   \* the archive the first run left
    staging0,   \* the staging directory as the run found it
    rw          \* manifest rewrite under test: text read, text written,
                \* text written by a second application

vars == <<pc, nargs, env, wsExists, tree, modText, staging, tar, toVisit, toAdd,
          printed, exitCode, error, rerun, now, firstTar, staging0, rw>>

(***************************************************************************)
(* Bounds of the model.                                                    *)
(***************************************************************************)
MaxFiles == 3       \* files in the source tree
MaxArgs == 3        \* positional arguments given
MaxClock == 1       \* seconds of wall-clock time
MaxTextLen == 6     \* pieces in a manifest text under rewrite

(***************************************************************************)
(* Strings.                                                                *)
(***************************************************************************)
hack == <<"h", "a", "c", "k">>
MODULE_bazel == <<"M", "O", "D", "U", "L", "E", ".", "b", "a", "z", "e", "l">>

\* sys.argv[1] and sys.argv[2] of the runs modelled: "dist" and "o.tgz".
dir == <<"d", "i", "s", "t">>
tarball == <<"o", ".", "t", "g", "z">>

lib == <<"l", "i", "b">>
dot_ci == <<".", "c", "i">>

\* str.startswith
StartsWith(s, prefix) ==
    /\ Len(s) >= Len(prefix)
    /\ SubSeq(s, 1, Len(prefix)) = prefix

\* the substring test `sub in s`
Contains(s, sub) ==
    \E i \in 0..(Len(s) - Len(sub)) : SubSeq(s, i + 1, i + Len(sub)) = sub

\* str(path): the components joined by "/"
RECURSIVE Str(_)
Str(p) ==
    IF Len(p) = 0 THEN <<>>
    ELSE IF Len(p) = 1 THEN p[1]
    ELSE p[1] \o <<"/">> \o Str(Tail(p))

\* Path.name
Name(p) == p[Len(p)]

\* Path.parent
Parent(p) == SubSeq(p, 1, Len(p) - 1)

\* every ancestor directory of p below the root
Ancestors(p) == {SubSeq(p, 1, k) : k \in 1..(Len(p) - 1)}

(***************************************************************************)
(* The source trees the runs are given.                                    *)
(***************************************************************************)
Universe ==
    { <<MODULE_bazel>>,
      <<lib, MODULE_bazel>>,
      <<lib, <<"a", ".", "c">>>>,
      <<lib, <<"t", "g", "z">>>>,
      <<hack, <<"t", ".", "p", "y">>>>,
      <<<<"h", "a", "c", "k", "s", ".", "m", "d">>>>,
      <<<<"d", "i", "s", "t", ".", "m", "d">>>>,
      <<dot_ci, <<"x">>>> }

Trees == {t \in SUBSET Universe : Cardinality(t) <= MaxFiles}

\* the directories of a tree
Dirs(t) == UNION {Ancestors(p) : p \in t}

(***************************************************************************)
(* Manifest text.                                                          *)
(***************************************************************************)
NL == "\n"
X == "x"
StartHead == "## :- START"
MarkerTail == " ~ DEVELOPMENT DEPENDENCIES -: ##"
EndMarker == "## :- END ~ DEVELOPMENT DEPENDENCIES -: ##"

Pieces == {NL, X, StartHead, MarkerTail, EndMarker}

\* the start marker begins at position i of text
StartAt(text, i) ==
    /\ i >= 1
    /\ i + 1 <= Len(text)
    /\ text[i] = StartHead
    /\ text[i + 1] = MarkerTail

\* the end marker begins at position i of text
EndAt(text, i) ==
    /\ i >= 1
    /\ i <= Len(text)
    /\ text[i] = EndMarker

\* position after the longest run of newlines that begins at i (greedy \n*)
RECURSIVE SkipNewlines(_, _)
SkipNewlines(text, i) ==
    IF i <= Len(text) /\ text[i] = NL THEN SkipNewlines(text, i + 1) ELSE i

\* the pattern with a greedy .* in place of .*?: the match runs to the last
\* end marker of the text
MatchAtGreedy(text, i) ==
    LET j == SkipNewlines(text, i)
        ends == {k \in (j + 2)..Len(text) : EndAt(text, k)}
    IN  IF StartAt(text, j) /\ ends # {}
        THEN LET k == CHOOSE e \in ends : \A o \in ends : e >= o
             IN  SkipNewlines(text, k + 1)
        ELSE 0

\* remap_module_bzl_pattern.match at position i: the position after the match,
\* 0 when the pattern does not match there.  \n* takes the newlines at i, the
\* start marker must follow, .*? (DOTALL) runs to the nearest end marker after
\* it, and the closing \n* takes every newline that follows.
MatchAt(text, i) ==
    LET j == SkipNewlines(text, i)
        ends == {k \in (j + 2)..Len(text) : EndAt(text, k)}
    IN  IF StartAt(text, j) /\ ends # {}
        THEN LET k == CHOOSE e \in ends : \A o \in ends : e <= o
             IN  SkipNewlines(text, k + 1)
        ELSE 0

\* pattern.sub("", text) from position i on: the leftmost match is dropped and
\* the scan goes on after it; a position with no match keeps its character.
RECURSIVE SubFrom(_, _)
SubFrom(text, i) ==
    IF i > Len(text) THEN <<>>
    ELSE LET e == MatchAt(text, i)
         IN  IF e = 0 THEN <<text[i]>> \o SubFrom(text, i + 1)
             ELSE SubFrom(text, e)

\* pattern.sub("", text, count=1): only the leftmost match is dropped
RECURSIVE SubFirstFrom(_, _)
SubFirstFrom(text, i) ==
    IF i > Len(text) THEN <<>>
    ELSE LET e == MatchAt(text, i)
         IN  IF e = 0 THEN <<text[i]>> \o SubFirstFrom(text, i + 1)
             ELSE SubSeq(text, e, Len(text))

RewriteFirstOnly(text) == SubFirstFrom(text, 1)

\* remap_module_bzl_pattern.sub("", text)
Rewrite(text) == SubFrom(text, 1)

(***************************************************************************)
(* Files and directories.                                                  *)
(***************************************************************************)
NoStaging == [exists |-> FALSE, dirs |-> {}, files |-> <<>>]
EmptyStaging == [exists |-> TRUE, dirs |-> {}, files |-> <<>>]
NoTar == [exists |-> FALSE, mtime |-> 0, fname |-> <<>>, entries |-> <<>>]

\* the bytes of the source file at path p
SourceData(p, text) ==
    [origin |-> "source", path |-> p,
     text |-> IF Name(p) = MODULE_bazel THEN text ELSE <<X>>]

\* a file a previous, failed run left in the staging directory
StaleFile == [data |-> [origin |-> "stale", path |-> <<>>, text |-> <<X>>],
              mtime |-> "old"]

\* a staging directory left by a previous run: lib/ with a stale lib/a.c and
\* a stale file "old" at its top
StaleStaging ==
    [exists |-> TRUE,
     dirs |-> {<<lib>>},
     files |-> (<<lib, <<"a", ".", "c">>>> :> StaleFile) @@ (<<<<"o", "l", "d">>>> :> StaleFile)]

\* an archive a previous run left at the output path
StaleTar ==
    [exists |-> TRUE, mtime |-> 0, fname |-> <<"o", ".", "t">>,
     entries |-> <<[name |-> <<<<"o", "l", "d">>>>, data |-> StaleFile.data, mtime |-> 0]>>]

\* a file written at path p of a directory
WriteFile(st, p, file) ==
    [st EXCEPT !.files = [q \in (DOMAIN st.files) \cup {p} |->
                              IF q = p THEN file ELSE st.files[q]]]

\* dst.parent.mkdir(parents=True, exist_ok=True)
MkdirParents(st, p) == [st EXCEPT !.dirs = st.dirs \cup Ancestors(p)]

\* the parent directory of staging path p exists
ParentExists(st, p) == st.exists /\ (Len(p) = 1 \/ Parent(p) \in st.dirs)

(***************************************************************************)
(* __main__: the argument check.                                           *)
(***************************************************************************)
\* the usage message the check of len(sys.argv) ends the run with, "none"
\* when main is called
UsageFirstCheckOnly(argc) ==
    IF argc = 1 THEN "directory" ELSE "none"

UsageError(argc) ==
    IF argc = 1 THEN "directory"
    ELSE IF argc = 2 THEN "tarball"
    ELSE "none"

Start ==
    /\ pc = "start"
    /\ LET usage == UsageError(nargs + 1)
       IN  IF usage # "none"
           THEN /\ printed' = printed \cup {usage}
                /\ exitCode' = 1
                /\ pc' = "usage"
           ELSE /\ pc' = "main"
                /\ UNCHANGED <<printed, exitCode>>
    /\ UNCHANGED <<nargs, env, wsExists, tree, modText, staging, tar, toVisit,
                   toAdd, error, rerun, now, firstTar, staging0, rw>>

(***************************************************************************)
(* main: the staging directory is removed and created again.               *)
(***************************************************************************)
\* distdir.mkdir() without the rmtree before it would fail on an existing
\* directory; with exist_ok it keeps what the directory holds
RecreateKeeping(st) == IF st.exists THEN st ELSE EmptyStaging

\* if distdir.exists(): shutil.rmtree(distdir); distdir.mkdir()
Recreate(st) == EmptyStaging

Clean ==
    /\ pc = "main"
    /\ staging' = Recreate(staging)
    /\ pc' = "resolve"
    /\ UNCHANGED <<nargs, env, wsExists, tree, modText, tar, toVisit, toAdd,
                   printed, exitCode, error, rerun, now, firstTar, staging0, rw>>

(***************************************************************************)
(* main: the source root.                                                  *)
(***************************************************************************)
\* Path(os.environ.get("RUNFILES_DIR") or os.environ.get("RUNFILES_MANIFEST_FILE"))
\* raises TypeError on None; the rglob of a root that does not exist yields
\* nothing and raises nothing.
Resolve ==
    /\ pc = "resolve"
    /\ IF env = "unset"
       THEN /\ error' = "TypeError"
            /\ exitCode' = 1
            /\ pc' = "aborted"
            /\ UNCHANGED <<toVisit, printed>>
       ELSE /\ printed' = printed \cup {"finding"}
            /\ toVisit' = IF wsExists THEN tree \cup Dirs(tree) ELSE {}
            /\ pc' = "walk"
            /\ UNCHANGED <<error, exitCode>>
    /\ UNCHANGED <<nargs, env, wsExists, tree, modText, staging, tar, toAdd,
                   rerun, now, firstTar, staging0, rw>>

(***************************************************************************)
(* main: the walk of the source root.                                      *)
(***************************************************************************)
\* the filter without the test of the archive's name
SkippedNoTarballTest(rel, files) ==
    \/ StartsWith(Str(rel), hack)
    \/ StartsWith(Str(rel), dir)
    \/ rel \notin files

\* the entry at rel is passed over: its path starts with "hack" or with the
\* staging directory's name, it is no file, or its name is part of the
\* archive's name
Skipped(rel, files) ==
    \/ StartsWith(Str(rel), hack)
    \/ StartsWith(Str(rel), dir)
    \/ rel \notin files
    \/ Contains(tarball, Name(rel))

\* remap_module_bazel: the rewritten text is written to new_file, whose
\* parent directory is not created
remap_module_bazel(st, rel, text) ==
    WriteFile(st, rel, [data |-> [origin |-> "source", path |-> rel,
                                  text |-> Rewrite(text)],
                        mtime |-> "written"])

\* remap: the parent directories are created and copy2 copies the bytes and
\* the modification time
remap(st, rel, text) ==
    WriteFile(MkdirParents(st, rel), rel,
              [data |-> SourceData(rel, text), mtime |-> "source"])

Visit(f) ==
    /\ pc = "walk"
    /\ f \in toVisit
    /\ toVisit' = toVisit \ {f}
    /\ IF Skipped(f, tree)
       THEN UNCHANGED <<staging, printed, exitCode, error, pc>>
       ELSE IF Name(f) = MODULE_bazel
       THEN IF ParentExists(staging, f)
            THEN /\ staging' = remap_module_bazel(staging, f, modText)
                 /\ UNCHANGED <<printed, exitCode, error, pc>>
            ELSE /\ error' = "FileNotFoundError"
                 /\ exitCode' = 1
                 /\ pc' = "aborted"
                 /\ UNCHANGED <<staging, printed>>
       ELSE /\ staging' = remap(staging, f, modText)
            /\ printed' = printed \cup {"copying"}
            /\ UNCHANGED <<exitCode, error, pc>>
    /\ UNCHANGED <<nargs, env, wsExists, tree, modText, tar, toAdd, rerun, now,
                   firstTar, staging0, rw>>

(***************************************************************************)
(* main and construct_tarball: the archive.                                *)
(***************************************************************************)
\* _tar_filter
_tar_filter(file) == 0

\* gzip's FNAME field: the base name of the output without ".gz"
GzipName(n) ==
    IF Len(n) >= 3 /\ SubSeq(n, Len(n) - 2, Len(n)) = <<".", "g", "z">>
    THEN SubSeq(n, 1, Len(n) - 3)
    ELSE n

\* the walk is over: a stale archive is unlinked and tarfile.open writes the
\* gzip header, which holds the time of the call
Archive ==
    /\ pc = "walk"
    /\ toVisit = {}
    /\ tar' = [exists |-> TRUE, mtime |-> now, fname |-> GzipName(tarball),
               entries |-> <<>>]
    /\ toAdd' = (DOMAIN staging.files) \cup staging.dirs
    /\ pc' = "adding"
    /\ UNCHANGED <<nargs, env, wsExists, tree, modText, staging, toVisit, printed,
                   exitCode, error, rerun, now, firstTar, staging0, rw>>

\* one entry dst.rglob("*") yields, in the order the file system gives
TarAdd(f) ==
    /\ pc = "adding"
    /\ f \in toAdd
    /\ toAdd' = toAdd \ {f}
    /\ IF f \in DOMAIN staging.files
       THEN tar' = [tar EXCEPT !.entries =
                        Append(@, [name |-> f,
                                   data |-> staging.files[f].data,
                                   mtime |-> _tar_filter(staging.files[f])])]
       ELSE UNCHANGED tar
    /\ UNCHANGED <<pc, nargs, env, wsExists, tree, modText, staging, toVisit,
                   printed, exitCode, error, rerun, now, firstTar, staging0, rw>>

\* the archive is closed, the staging directory removed and the run ends
Finish ==
    /\ pc = "adding"
    /\ toAdd = {}
    /\ staging' = NoStaging
    /\ printed' = printed \cup {"finished"}
    /\ exitCode' = 0
    /\ pc' = "done"
    /\ UNCHANGED <<nargs, env, wsExists, tree, modText, tar, toVisit, toAdd,
                   error, rerun, now, firstTar, staging0, rw>>

\* the script is run a second time with the same arguments over the same
\* source tree, at the same or a later time
Rerun ==
    /\ pc = "done"
    /\ ~rerun
    /\ rerun' = TRUE
    /\ firstTar' = tar
    /\ staging0' = staging
    /\ \E t \in now..MaxClock : now' = t
    /\ pc' = "start"
    /\ printed' = {}
    /\ exitCode' = -1
    /\ UNCHANGED <<nargs, env, wsExists, tree, modText, staging, tar, toVisit,
                   toAdd, error, rw>>

(***************************************************************************)
(* The runs of the script.                                                 *)
(***************************************************************************)
RwIdle == [pc |-> "idle", read |-> <<>>, written |-> <<>>, again |-> <<>>]

\* the manifest texts of the runs: no region; one region with its padding
ManifestTexts ==
    { <<X>>,
      <<X, NL, StartHead, MarkerTail, X, EndMarker, NL, X>> }

HasManifest(t) == \E p \in t : Name(p) = MODULE_bazel

Init ==
    /\ pc = "start"
    /\ nargs \in 0..MaxArgs
    /\ env \in {"unset", "RUNFILES_DIR", "RUNFILES_MANIFEST_FILE"}
    /\ wsExists \in BOOLEAN
    /\ tree \in Trees
    /\ ~wsExists => tree = {}
    /\ modText \in ManifestTexts
    /\ ~HasManifest(tree) => modText = <<X>>
    /\ staging \in {NoStaging, StaleStaging}
    /\ tar \in {NoTar, StaleTar}
    /\ toVisit = {}
    /\ toAdd = {}
    /\ printed = {}
    /\ exitCode = -1
    /\ error = "none"
    /\ rerun = FALSE
    /\ now = 0
    /\ firstTar = NoTar
    /\ staging0 = staging
    /\ rw = RwIdle

Next ==
    \/ Start
    \/ Clean
    \/ Resolve
    \/ \E f \in toVisit : Visit(f)
    \/ Archive
    \/ \E f \in toAdd : TarAdd(f)
    \/ Finish
    \/ Rerun

Spec == Init /\ [][Next]_vars

(***************************************************************************)
(* The manifest rewrite on its own: remap_module_bazel reads a text and    *)
(* writes the rewritten text; the text written is then rewritten again.    *)
(***************************************************************************)
Texts == UNION {[1..n -> Pieces] : n \in 0..MaxTextLen}

\* remap_module_bazel: text = mod.read_text(); new_file.write_text(sub("", text))
RewriteOnce ==
    /\ rw.pc = "read"
    /\ rw' = [rw EXCEPT !.written = Rewrite(rw.read), !.pc = "written"]
    /\ UNCHANGED <<pc, nargs, env, wsExists, tree, modText, staging, tar, toVisit,
                   toAdd, printed, exitCode, error, rerun, now, firstTar, staging0>>

\* remap_module_bazel on a manifest that holds the text it wrote before
RewriteAgain ==
    /\ rw.pc = "written"
    /\ rw' = [rw EXCEPT !.again = Rewrite(rw.written), !.pc = "again"]
    /\ UNCHANGED <<pc, nargs, env, wsExists, tree, modText, staging, tar, toVisit,
                   toAdd, printed, exitCode, error, rerun, now, firstTar, staging0>>

InitRewrite ==
    /\ pc = "idle"
    /\ nargs = 0
    /\ env = "unset"
    /\ wsExists = FALSE
    /\ tree = {}
    /\ modText = <<X>>
    /\ staging = NoStaging
    /\ tar = NoTar
    /\ toVisit = {}
    /\ toAdd = {}
    /\ printed = {}
    /\ exitCode = -1
    /\ error = "none"
    /\ rerun = FALSE
    /\ now = 0
    /\ firstTar = NoTar
    /\ staging0 = NoStaging
    /\ \E t \in Texts : rw = [pc |-> "read", read |-> t, written |-> <<>>, again |-> <<>>]

NextRewrite == RewriteOnce \/ RewriteAgain

SpecRewrite == InitRewrite /\ [][NextRewrite]_vars

(***************************************************************************)
(* The delimited regions of a text, as the two-marker scan finds them: the *)
(* first start marker at or after i that has an end marker after it, to    *)
(* the nearest such end marker, and on from there.                         *)
(***************************************************************************)
Terminated(text, j) ==
    StartAt(text, j) /\ \E k \in (j + 2)..Len(text) : EndAt(text, k)

RECURSIVE Regions(_, _)
Regions(text, i) ==
    LET starts == {j \in i..Len(text) : Terminated(text, j)}
    IN  IF starts = {} THEN {}
        ELSE LET j == CHOOSE a \in starts : \A b \in starts : a <= b
                 k == CHOOSE a \in (j + 2)..Len(text) :
                          /\ EndAt(text, a)
                          /\ \A b \in (j + 2)..(a - 1) : ~EndAt(text, b)
             IN  {<<j, k>>} \cup Regions(text, k + 1)

\* position p lies in a region or in the newlines next to one
Covered(text, p) ==
    \E r \in Regions(text, 1) :
        \/ r[1] <= p /\ p <= r[2] 
        \/ p < r[1] /\ \A q \in p..(r[1] - 1) : text[q] = NL
        \/ p > r[2] /\ \A q \in (r[2] + 1)..p : text[q] = NL

\* the characters outside the regions and their padding, in their order
RECURSIVE OutsideFrom(_, _)
OutsideFrom(text, p) ==
    IF p > Len(text) THEN <<>>
    ELSE (IF Covered(text, p) THEN <<>> ELSE <<text[p]>>) \o OutsideFrom(text, p + 1)

Outside(text) == OutsideFrom(text, 1)

HasStart(text) == \E j \in 1..Len(text) : StartAt(text, j)

\* the two halves of a start marker stand on the two sides of removed text
Joins(text) ==
    \E i, j \in 1..Len(text) :
        /\ i + 1 < j
        /\ text[i] = StartHead /\ text[j] = MarkerTail
        /\ ~Covered(text, i) /\ ~Covered(text, j)
        /\ \A q \in (i + 1)..(j - 1) : Covered(text, q)

\* every start marker of the text has an end marker after it
AllTerminated(text) == \A j \in 1..Len(text) : StartAt(text, j) => Terminated(text, j)

\* C4 as stated: the text written holds no start marker, and it is the
\* characters outside the regions and their newline padding, in their order.
C4_Original ==
    rw.pc \in {"written", "again"} =>
        /\ ~HasStart(rw.written)
        /\ rw.written = Outside(rw.read)

\* C4 amended: the text written is exactly the characters outside the N
\* regions and their adjacent newline padding, in their original order; it
\* holds no start marker when every start marker of the input has an end
\* marker after it and no removed text lies between the two halves of a start
\* marker.
C4_RewriteKeepsOutside ==
    rw.pc \in {"written", "again"} =>
        /\ rw.written = Outside(rw.read)
        /\ (AllTerminated(rw.read) /\ ~Joins(rw.read)) => ~HasStart(rw.written)

\* a text with a region and padding was rewritten and text outside it is left
C4_Witness ==
    /\ rw.pc = "written"
    /\ Regions(rw.read, 1) # {}
    /\ AllTerminated(rw.read) /\ ~Joins(rw.read)
    /\ Len(rw.written) >= 2
    /\ Len(rw.read) - Len(rw.written) >= 4

EntryNames == {tar.entries[i].name : i \in 1..Len(tar.entries)}

\* the characters of the paths, in the order of their codes
Ascii ==
    <<".", "/", "D", "E", "L", "M", "O", "U", "a", "b", "c", "d", "e", "g", "h",
      "i", "k", "l", "m", "o", "p", "s", "t", "x", "y", "z">>

Code(c) == CHOOSE i \in 1..Len(Ascii) : Ascii[i] = c

\* s comes before t in the lexicographic order of strings
RECURSIVE LexLess(_, _)
LexLess(s, t) ==
    IF Len(t) = 0 THEN FALSE
    ELSE IF Len(s) = 0 THEN TRUE
    ELSE IF s[1] # t[1] THEN Code(s[1]) < Code(t[1])
    ELSE LexLess(Tail(s), Tail(t))

\* C1: two complete runs over the same source tree, manifest and arguments
\* leave byte-identical archives: the same gzip header and the same entries
\* in the same order, whatever the time of each run and the order of the walks.
C1_Determinism ==
    (rerun /\ pc = "done") => tar = firstTar

\* C2: the entries of the archive are in the lexicographic order of their
\* paths relative to the staging root, whatever order rglob yields them in.
C2_SortedEntries ==
    pc = "done" =>
        \A i, j \in 1..Len(tar.entries) :
            i < j => LexLess(Str(tar.entries[i].name), Str(tar.entries[j].name))

C6_StagingIsolation ==
    /\ pc = "resolve" => staging = EmptyStaging
    /\ pc \in {"walk", "adding"} =>
          \A p \in DOMAIN staging.files :
              /\ p \in tree
              /\ staging.files[p].data.origin = "source"
    /\ pc \in {"adding", "done"} =>
          \A i \in 1..Len(tar.entries) :
              /\ tar.entries[i].name \in tree
              /\ tar.entries[i].data.origin = "source"
              /\ tar.entries[i].data.path = tar.entries[i].name
              /\ tar.entries[i].name \in DOMAIN staging0.files =>
                     tar.entries[i].data # staging0.files[tar.entries[i].name].data

\* a complete run that found a stale staging directory holding lib/a.c and
\* archived the lib/a.c of the source tree
C6_Witness ==
    /\ pc = "done"
    /\ staging0.exists
    /\ \E i \in 1..Len(tar.entries) : tar.entries[i].name \in DOMAIN staging0.files

\* the directories the header of the script lists as removed
DevelopmentDirs ==
    { <<".", "a", "g", "e", "n", "t", "s">>,
      <<".", "c", "i">>,
      <<".", "g", "i", "t", "h", "u", "b">>,
      <<".", "i", "d", "e", "a">>,
      <<".", "v", "s", "c", "o", "d", "e">>,
      <<"h", "a", "c", "k">>,
      <<"p", "a", "t", "c", "h", "e", "s">>,
      <<"n", "i", "x">> }

\* C7: after a complete run no entry of the archive lies under .agents, .ci,
\* .github, .idea, .vscode, hack, patches or nix.
C7_NoDevelopmentDirs ==
    pc = "done" =>
        \A p \in EntryNames : ~(Len(p) > 1 /\ p[1] \in DevelopmentDirs)

\* C8: when neither runfiles variable is set, or the source root does not
\* exist, the run never reaches archiving, writes no archive and does not
\* print the completion message.
C8_ResolutionFailsFatally ==
    (env = "unset" \/ ~wsExists) =>
        /\ pc \notin {"adding", "done"}
        /\ tar \in {NoTar, StaleTar}
        /\ "finished" \notin printed

\* the run ended with a usage message and touched neither the staging
\* directory nor the archive
UsageExit ==
    /\ pc = "usage"
    /\ exitCode = 1
    /\ printed \cap {"directory", "tarball"} # {}
    /\ staging = staging0
    /\ tar \in {NoTar, StaleTar}

\* C9 as stated: the pipeline runs if and only if exactly two positional
\* arguments are given; every other count ends with the usage message.
C9_Original ==
    pc # "start" => IF nargs = 2 THEN pc # "usage" ELSE UsageExit

\* C9 amended: the pipeline runs if and only if at least two positional
\* arguments are given (arguments after the second are ignored); with zero
\* or one argument the run prints a usage message and exits with code 1
\* without touching the staging directory or the archive.
C9_RunsIffAtLeastTwo ==
    pc # "start" => IF nargs >= 2 THEN pc # "usage" ELSE UsageExit

\* a run with three positional arguments went through the pipeline
C9_Witness ==
    /\ nargs >= 3
    /\ pc = "done"
    /\ Len(tar.entries) >= 1

\* C10: populating never fails for a missing parent directory in the staging
\* directory, for a file remap copies and for a MODULE.bazel alike.
C10_ParentExists ==
    error # "FileNotFoundError"

====
